---------------------------- MODULE Spec2Model ----------------------------
(***************************************************************************)
(* Model of the Drone_pi control-to-wire pipeline:                         *)
(*   src/src/controller.py   DroneController (normalisation, low-pass      *)
(*                           filter, arming gate, kill / signal shutdown)  *)
(*   src/src/msp_sender.py   MSPSender (shared channel state, lock,        *)
(*                           fixed-rate transmitter thread, serial port)   *)
(*   src/src/verify_msp.py   create_packet (MSP v1 framing)                *)
(*   src/src/verify_crsf.py  crc8_crsf, create_crsf_frame (CRSF framing)   *)
(*                                                                         *)
(* Python floats are modelled as exact rationals num / Scale: every axis   *)
(* value is kept as its integer numerator over the fixed denominator       *)
(* Scale, which is chosen so that every value the filter can produce       *)
(* within MaxAxisEvents filter steps is an integer numerator.              *)
(***************************************************************************)
EXTENDS Integers, Sequences, FiniteSets, TLC

(* ------------------------------ bounds -------------------------------- *)

\* number of EV_ABS events the input thread processes in one run
MaxAxisEvents == 1

\* number of calls a direct client of MSPSender makes in one run
MaxCalls == 3

\* filter steps taken with one steady input
MaxLpfSteps == 3

\* stick and trigger events ControllerHandler processes in one run
MaxHandlerEvents == 2

(* ------------------------- program constants -------------------------- *)

CENTER == 128
MAX_RANGE == 127
DEADZONE == 5
\* ALPHA = 0.25 as the fraction ALPHA_NUM / ALPHA_DEN
ALPHA_NUM == 1
ALPHA_DEN == 4
\* the arm threshold 0.05 as the fraction ARM_THR_NUM / ARM_THR_DEN
ARM_THR_NUM == 5
ARM_THR_DEN == 100
\* ControllerHandler.ALPHA = 0.25 as the fraction HALPHA_NUM / HALPHA_DEN
HALPHA_NUM == 1
HALPHA_DEN == 4
\* main(): arm only if rc["throttle"] < ARM_RC_LIMIT
ARM_RC_LIMIT == 1100
MSP_SET_RAW_RC == 200
CRSF_SYNC == 200
CRSF_TYPE == 22
CRSF_POLY == 213
CRSF_BITS == 11
CRSF_PAYLOAD_LEN == 22

\* common denominator of every modelled float: the filter's values after
\* MaxAxisEvents steps and the arm threshold are whole numerators over it
Scale == 2 * MAX_RANGE * ARM_THR_DEN * (ALPHA_DEN ^ MaxAxisEvents)

Axes == {"roll", "pitch", "yaw", "throttle"}

(* ------------------------- integer helpers ---------------------------- *)

Abs(x) == IF x < 0 THEN -x ELSE x

Min(a, b) == IF a < b THEN a ELSE b

Max(a, b) == IF a > b THEN a ELSE b

RECURSIVE BitXor(_, _)
\* Python a ^ b on non-negative integers
BitXor(a, b) ==
    IF a = 0 THEN b
    ELSE IF b = 0 THEN a
    ELSE (((a % 2) + (b % 2)) % 2) + 2 * BitXor(a \div 2, b \div 2)

\* Python (v >> i) & 1 on a non-negative integer
Bit(v, i) == (v \div (2 ^ i)) % 2

(* --------------------- MSP v1 framing (pure) -------------------------- *)

\* struct.pack('<8H', *rc_channels): each value as two bytes, low byte first
Pack8H(ch) ==
    [j \in 1..(2 * Len(ch)) |->
        IF j % 2 = 1 THEN ch[(j + 1) \div 2] % 256
                     ELSE (ch[j \div 2] \div 256) % 256]

\* a ^ b for two bytes, tabulated
XorTable == [a \in 0..255 |-> [b \in 0..255 |-> BitXor(a, b)]]

RECURSIVE XorBytes(_, _, _)
\* the loop "for byte in payload: checksum ^= byte", from index i on
XorBytes(acc, bytes, i) ==
    IF i > Len(bytes) THEN acc
    ELSE XorBytes(XorTable[acc][bytes[i]], bytes, i + 1)

\* a checksum that leaves the message id out
MspChecksumWithoutId(data_id, payload) ==
    XorBytes(Len(payload), payload, 1)

\* checksum = length ^ data_id, then the payload bytes
MspChecksum(data_id, payload) ==
    XorBytes(BitXor(Len(payload), data_id), payload, 1)

\* b'$M<'
MSP_HEADER == <<36, 77, 60>>

\* MSPSender._create_packet / verify_msp.create_packet
CreatePacket(data_id, payload) ==
    MSP_HEADER \o <<Len(payload) % 256, data_id % 256>> \o payload
               \o <<MspChecksum(data_id, payload)>>

(* ---------------------- CRSF framing (pure) --------------------------- *)

RECURSIVE Crc8Bits(_, _)
\* the inner loop of crc8_crsf: n more times, shift left, XOR the
\* polynomial in if the high bit was set, mask to 8 bits
Crc8Bits(crc, n) ==
    IF n = 0 THEN crc
    ELSE IF (crc \div 128) % 2 = 1
      THEN Crc8Bits(BitXor((crc * 2) % 256, CRSF_POLY), n - 1)
      ELSE Crc8Bits((crc * 2) % 256, n - 1)

\* the eight shift steps of crc8_crsf applied to each value of crc after
\* "crc ^= byte"
Crc8Shifted == [c \in 0..255 |-> Crc8Bits(c, 8)]

RECURSIVE Crc8Upto(_, _)
\* the running value of crc8_crsf after the first n bytes of data
Crc8Upto(data, n) ==
    IF n = 0 THEN 0
    ELSE Crc8Shifted[BitXor(Crc8Upto(data, n - 1), data[n])]

\* crc8_crsf(data)
crc8_crsf(data) == Crc8Upto(data, Len(data))

RECURSIVE PackBitsMsbFirst(_, _, _)
\* a packer that emits the bits of a value most significant bit first
PackBitsMsbFirst(ch_val, i, st) ==
    IF i = CRSF_BITS THEN st
    ELSE
      LET p1 == IF Bit(ch_val, CRSF_BITS - 1 - i) = 1
                  THEN [st.payload EXCEPT ![st.current_byte + 1] = @ + 2 ^ st.bits]
                  ELSE st.payload
          wrap == st.bits + 1 = 8
      IN  PackBitsMsbFirst(ch_val, i + 1,
                   [bits |-> IF wrap THEN 0 ELSE st.bits + 1,
                    current_byte |-> IF wrap THEN st.current_byte + 1
                                             ELSE st.current_byte,
                    payload |-> p1])

RECURSIVE PackBits(_, _, _)
\* the inner loop of create_crsf_frame from value bit i on: st holds the
\* loop's variables bits, current_byte (0-based) and payload
PackBits(ch_val, i, st) ==
    IF i = CRSF_BITS THEN st
    ELSE
      LET p1 == IF Bit(ch_val, i) = 1 /\ Bit(st.payload[st.current_byte + 1], st.bits) = 0
                  THEN [st.payload EXCEPT ![st.current_byte + 1] = @ + 2 ^ st.bits]
                  ELSE st.payload
          wrap == st.bits + 1 = 8
      IN  PackBits(ch_val, i + 1,
                   [bits |-> IF wrap THEN 0 ELSE st.bits + 1,
                    current_byte |-> IF wrap THEN st.current_byte + 1
                                             ELSE st.current_byte,
                    payload |-> p1])

RECURSIVE PackLoop(_, _, _)
\* the outer loop of create_crsf_frame from channel k (1-based) on; the
\* payload is full after 16 channels
PackLoop(chs, k, st) ==
    IF st.current_byte = CRSF_PAYLOAD_LEN \/ k > Len(chs) THEN st
    ELSE PackLoop(chs, k + 1, PackBits(chs[k], 0, st))

\* the 22-byte payload built by create_crsf_frame
CrsfPayload(chs) ==
    PackLoop(chs, 1, [bits |-> 0, current_byte |-> 0,
                      payload |-> [j \in 1..CRSF_PAYLOAD_LEN |-> 0]]).payload

\* a framer whose CRC also covers the sync and length bytes
CreateCrsfFrameCrcOverAll(chs) ==
    LET frame == <<CRSF_SYNC, CRSF_PAYLOAD_LEN + 2, CRSF_TYPE>> \o CrsfPayload(chs)
    IN  frame \o <<crc8_crsf(frame)>>

\* create_crsf_frame(rc_channels)
create_crsf_frame(chs) ==
    LET payload == CrsfPayload(chs)
        head == <<CRSF_SYNC, Len(payload) + 2, CRSF_TYPE>>
        frame == head \o payload
    IN  frame \o <<crc8_crsf(SubSeq(frame, 3, Len(frame)))>>

(* ------------------------------ state --------------------------------- *)

VARIABLES
    \* DroneController
    armed,          \* self.armed: the arming gate
    raw,            \* self.raw[axis], numerator over Scale
    filtered,       \* self.filtered[axis], numerator over Scale
    event,          \* the event most recently handed to _process_event
    nAxis,          \* EV_ABS events processed so far
    \* the input (main) thread
    mainPc,         \* its position
    mainRet,        \* where it continues when update_values returns
    uvVals,         \* update_values argument filtered_vals
    uvArmed,        \* update_values argument armed
    uvI,            \* next slot update_values writes
    nCalls,         \* calls made by a direct client of MSPSender
    \* MSPSender
    rc_channels,    \* self.rc_channels
    sender_armed,   \* self.armed
    data_lock,      \* holder of self.data_lock
    running,        \* self.running
    ser,            \* path of the serial object self.ser, or "None"
    ser_open,       \* self.ser.is_open
    port,           \* self.port
    nOpen,          \* serial.Serial objects that are open
    \* the transmitter thread
    txPc,           \* its position in _sender_loop
    payload,        \* the bytes it packed in this tick
    \* the serial devices
    present,        \* device paths that can be opened and written
    wire,           \* the last packet written to the wire
    \* history
    committed,      \* rc_channels at the last release of data_lock
    sleepTicks,     \* progress of the transmitter during close()'s sleep
    ioFailed,       \* a serial call failed or hung since close() disarmed
    \* inputs and results of the pure framing functions
    msp_in, msp_out, crsf_in, crsf_out,
    norm_in,        \* a raw sample handed to one of the normalizers
    norm_out,       \* what the normalizer returned, as num / den
    \* the command/telemetry variant (main.py)
    handler,        \* the ControllerHandler: its filter, rc_values, buttons
    drone           \* what main() has sent to the flight controller

ctlVars == <<armed, raw, filtered, event, nAxis>>

mainVars == <<mainPc, mainRet, uvVals, uvArmed, uvI, nCalls>>

senderVars == <<rc_channels, sender_armed, data_lock, running>>

serVars == <<ser, ser_open, port, nOpen>>

txVars == <<txPc, payload>>

histVars == <<committed, sleepTicks, ioFailed>>

normVars == <<norm_in, norm_out>>

cmdVars == <<handler, drone>>

pureVars == <<msp_in, msp_out, crsf_in, crsf_out, normVars, cmdVars>>

vars == <<ctlVars, mainVars, senderVars, serVars, txVars, present, wire,
          histVars, pureVars>>

(* --------------------------- DroneController -------------------------- *)

\* DroneController._normalize: the result as a numerator over Scale
Normalize(value, invert) ==
    LET delta == value - CENTER
        n == Max(-Scale, Min(Scale, delta * (Scale \div MAX_RANGE)))
    IN  IF Abs(delta) < DEADZONE THEN 0
        ELSE IF invert THEN -n ELSE n

\* a filter whose two weights are both ALPHA
ApplyLpfBothAlpha(new, old) ==
    (ALPHA_NUM * new + ALPHA_NUM * old) \div ALPHA_DEN

\* DroneController._apply_lpf: ALPHA * new + (1 - ALPHA) * old
ApplyLpf(new, old) ==
    (ALPHA_NUM * new + (ALPHA_DEN - ALPHA_NUM) * old) \div ALPHA_DEN

\* DroneController._reset_inputs
ResetInputs == [a \in Axes |-> 0]

\* a safe-start check that lets every arm command through
ArmAlways(f) == TRUE

\* a safe-start check that also passes at the threshold
ArmAllowedAtThreshold(f) == f["throttle"] * ARM_THR_DEN <= ARM_THR_NUM * Scale

\* the safe-start check: self.filtered["throttle"] < 0.05
ArmAllowed(f) == f["throttle"] * ARM_THR_DEN < ARM_THR_NUM * Scale

\* the raw values after a stick event
RawAfter(code, value) ==
    CASE code = "ABS_X"  -> [raw EXCEPT !["yaw"] = Normalize(value, FALSE)]
      [] code = "ABS_Y"  -> [raw EXCEPT !["throttle"] =
                                (Normalize(value, TRUE) + Scale) \div 2]
      [] code = "ABS_RX" -> [raw EXCEPT !["roll"] = Normalize(value, FALSE)]
      [] code = "ABS_RY" -> [raw EXCEPT !["pitch"] = Normalize(value, TRUE)]
      [] OTHER -> raw

\* button events: value 1 is a press, 0 a release, 2 a key repeat
KeyEvents ==
    [type : {"EV_KEY"}, code : {"BTN_SOUTH"}, value : {0, 1, 2}]
    \cup [type : {"EV_KEY"},
          code : {"BTN_NORTH", "BTN_EAST", "BTN_START"},
          value : {1}]

NoEvent == [type |-> "none", code |-> "none", value |-> 0]

\* event.value == 1: the button is pressed
IsPressRepeatToo(e) == e.value >= 1

IsPress(e) == e.value = 1

\* stick events: ABS_Y 204 and 205 filter to a throttle just above and just
\* below the arm threshold, 130 lies in the dead zone, 300 is out of range,
\* ABS_Z is an axis _process_event does not map
AxisEvents ==
    [type : {"EV_ABS"}, code : {"ABS_Y"}, value : {204, 205}]
    \cup [type : {"EV_ABS"}, code : {"ABS_X"}, value : {255}]
    \cup [type : {"EV_ABS"}, code : {"ABS_RX"}, value : {130}]
    \cup [type : {"EV_ABS"}, code : {"ABS_RY"}, value : {300}]
    \cup [type : {"EV_ABS"}, code : {"ABS_Z"}, value : {7}]

OtherEvents == [type : {"EV_SYN"}, code : {"SYN_REPORT"}, value : {0}]

\* the call self.sender.update_values(vals, a), continuing at ret
CallUpdateValues(vals, a, ret) ==
    /\ mainPc' = "uv_lock"
    /\ mainRet' = ret
    /\ uvVals' = vals
    /\ uvArmed' = a
    /\ UNCHANGED <<uvI, nCalls>>

\* _process_event for a button event
ProcessKey(e) ==
    /\ mainPc = "idle"
    /\ e \in KeyEvents
    /\ event' = e
    /\ UNCHANGED nAxis
    /\ IF IsPress(e) /\ e.code = "BTN_SOUTH" THEN
          /\ armed' = IF ~armed /\ ArmAllowed(filtered) THEN TRUE ELSE armed
          /\ UNCHANGED <<raw, filtered, mainVars>>
       ELSE IF IsPress(e) /\ e.code \in {"BTN_NORTH", "BTN_EAST"} THEN
          /\ armed' = FALSE
          /\ raw' = IF armed THEN ResetInputs ELSE raw
          /\ filtered' = IF armed THEN ResetInputs ELSE filtered
          /\ UNCHANGED mainVars
       ELSE IF IsPress(e) /\ e.code = "BTN_START" THEN
          /\ armed' = FALSE
          /\ UNCHANGED <<raw, filtered>>
          /\ CallUpdateValues(filtered, FALSE, "cl_lock")
       ELSE UNCHANGED <<armed, raw, filtered, mainVars>>
    /\ UNCHANGED <<senderVars, serVars, txVars, present, wire, histVars, pureVars>>

\* _process_event for a stick event
ProcessAxis(e) ==
    /\ mainPc = "idle"
    /\ e \in AxisEvents
    /\ nAxis < MaxAxisEvents
    /\ event' = e
    /\ nAxis' = nAxis + 1
    /\ raw' = RawAfter(e.code, e.value)
    /\ filtered' = [a \in Axes |-> ApplyLpf(raw'[a], filtered[a])]
    /\ CallUpdateValues(filtered', armed, "idle")
    /\ UNCHANGED <<armed, senderVars, serVars, txVars, present, wire,
                   histVars, pureVars>>

\* _process_event for any other event type
ProcessOther(e) ==
    /\ mainPc = "idle"
    /\ e \in OtherEvents
    /\ event' = e
    /\ UNCHANGED <<armed, raw, filtered, nAxis, mainVars, senderVars, serVars,
                   txVars, present, wire, histVars, pureVars>>

\* _signal_handler, entered on top of whatever the main thread is doing
SignalHandler ==
    /\ mainPc # "exited"
    /\ armed' = FALSE
    /\ CallUpdateValues(filtered, FALSE, "cl_lock")
    /\ UNCHANGED <<raw, filtered, event, nAxis, senderVars, serVars, txVars,
                   present, wire, histVars, pureVars>>

\* sys.exit(0) after close(); run()'s finally clause resets the inputs
SysExit ==
    /\ mainPc = "closed"
    /\ mainPc' = "exited"
    /\ raw' = ResetInputs
    /\ filtered' = ResetInputs
    /\ UNCHANGED <<armed, event, nAxis, mainRet, uvVals, uvArmed, uvI, nCalls,
                   senderVars, serVars, txVars, present, wire, histVars, pureVars>>

(* ------------------------------ MSPSender ----------------------------- *)

\* self.rc_channels as __init__ sets it
INIT_CHANNELS == <<1500, 1500, 1000, 1500, 1000, 1000, 1000, 1000>>

\* self.rc_channels as update_values sets it when not armed
UPDATE_SAFE_CHANNELS == <<1500, 1500, 1500, 1000, 1000, 1000, 1000, 1000>>

\* self.rc_channels as close() sets it
CLOSE_CHANNELS == <<1500, 1500, 1000, 1500, 1000, 1000, 1000, 1000>>

Ports == {"/dev/ttyACM0", "/dev/ttyACM1", "/dev/ttyUSB0", "/dev/ttyUSB1"}

\* the port parameter of __init__
DEFAULT_PORT == "/dev/ttyACM0"

\* fallbacks of _start_serial
Fallbacks == <<"/dev/ttyACM1", "/dev/ttyUSB0", "/dev/ttyUSB1">>

\* ports_to_try of _start_serial for primary port p
PortsToTry(p) ==
    <<p>> \o SelectSeq(Fallbacks, LAMBDA q : q # p)

\* a _start_serial that tries the primary port alone
FirstOpenablePrimaryOnly(p, avail) == IF p \in avail THEN p ELSE "None"

\* the first candidate of _start_serial that opens, or "None"
FirstOpenable(p, avail) ==
    LET try == PortsToTry(p)
        ok == {i \in 1..Len(try) : try[i] \in avail}
    IN  IF ok = {} THEN "None"
        ELSE try[CHOOSE i \in ok : \A j \in ok : i <= j]

\* a _start_serial without the early return for a handle that is open
StartSerialAlwaysOpens(s, o, p, avail) ==
    LET q == FirstOpenable(p, avail)
    IN  IF q = "None"
          THEN [ser |-> "None", ser_open |-> FALSE, port |-> p, ok |-> FALSE,
                fresh |-> FALSE]
          ELSE [ser |-> q, ser_open |-> TRUE, port |-> q, ok |-> TRUE,
                fresh |-> TRUE]

\* _start_serial: the handle, is_open and self.port it leaves, its result,
\* and whether it has opened a new serial.Serial
StartSerial(s, o, p, avail) ==
    IF s # "None" /\ o
      THEN [ser |-> s, ser_open |-> o, port |-> p, ok |-> TRUE, fresh |-> FALSE]
      ELSE LET q == FirstOpenable(p, avail)
           IN  IF q = "None"
                 THEN [ser |-> "None", ser_open |-> FALSE, port |-> p,
                       ok |-> FALSE, fresh |-> FALSE]
                 ELSE [ser |-> q, ser_open |-> TRUE, port |-> q, ok |-> TRUE,
                       fresh |-> TRUE]

\* a clamp that lets every value through
ClampNothing(v) == v

\* max(1000, min(2000, v))
Clamp(v) == Max(1000, Min(2000, v))

\* int(base + v * gain) for the float v / Scale: int() truncates towards
\* zero; the whole and the fractional part of v are scaled apart, which
\* keeps the products small
IntOfAffine(base, gain, v) ==
    LET q == v \div Scale
        r == v % Scale
        lo == base + gain * q + ((gain * r) \div Scale)
    IN  IF lo >= 0 \/ (gain * r) % Scale = 0 THEN lo ELSE lo + 1

\* a mapping that stores the throttle in slot 2 and the yaw in slot 3
MapSlotThrottleBeforeYaw(vals, i) ==
    CASE i = 0 -> IntOfAffine(1500, 500, vals["roll"])
      [] i = 1 -> IntOfAffine(1500, 500, vals["pitch"])
      [] i = 2 -> IntOfAffine(1000, 1000, vals["throttle"])
      [] i = 3 -> IntOfAffine(1500, 500, vals["yaw"])
      [] i = 4 -> 2000

\* the value update_values stores in slot i (0-based) when armed
MapSlot(vals, i) ==
    CASE i = 0 -> IntOfAffine(1500, 500, vals["roll"])
      [] i = 1 -> IntOfAffine(1500, 500, vals["pitch"])
      [] i = 2 -> IntOfAffine(1500, 500, vals["yaw"])
      [] i = 3 -> IntOfAffine(1000, 1000, vals["throttle"])
      [] i = 4 -> 2000

\* update_values: with self.data_lock
UV_Acquire ==
    /\ mainPc = "uv_lock"
    /\ data_lock = "none"
    /\ data_lock' = "main"
    /\ mainPc' = "uv_armed"
    /\ UNCHANGED <<ctlVars, mainRet, uvVals, uvArmed, uvI, nCalls, rc_channels,
                   sender_armed, running, serVars, txVars, present, wire,
                   histVars, pureVars>>

\* an update that raises the armed flag whatever it was called with
UV_SetArmedAlways ==
    /\ mainPc = "uv_armed"
    /\ sender_armed' = TRUE
    /\ mainPc' = IF uvArmed THEN "uv_map" ELSE "uv_safe"
    /\ uvI' = 0
    /\ UNCHANGED <<ctlVars, mainRet, uvVals, uvArmed, nCalls, rc_channels,
                   data_lock, running, serVars, txVars, present, wire,
                   histVars, pureVars>>

\* update_values: self.armed = armed
UV_SetArmed ==
    /\ mainPc = "uv_armed"
    /\ sender_armed' = uvArmed
    /\ mainPc' = IF uvArmed THEN "uv_map" ELSE "uv_safe"
    /\ uvI' = 0
    /\ UNCHANGED <<ctlVars, mainRet, uvVals, uvArmed, nCalls, rc_channels,
                   data_lock, running, serVars, txVars, present, wire,
                   histVars, pureVars>>

\* update_values, not armed: the safe defaults replace the list
UV_Safe ==
    /\ mainPc = "uv_safe"
    /\ rc_channels' = UPDATE_SAFE_CHANNELS
    /\ mainPc' = "uv_clamp"
    /\ UNCHANGED <<ctlVars, mainRet, uvVals, uvArmed, uvI, nCalls, sender_armed,
                   data_lock, running, serVars, txVars, present, wire,
                   histVars, pureVars>>

\* update_values, armed: one of the five in-place slot assignments
UV_Map ==
    /\ mainPc = "uv_map"
    /\ rc_channels' = [rc_channels EXCEPT ![uvI + 1] = MapSlot(uvVals, uvI)]
    /\ uvI' = uvI + 1
    /\ mainPc' = IF uvI = 4 THEN "uv_clamp" ELSE "uv_map"
    /\ UNCHANGED <<ctlVars, mainRet, uvVals, uvArmed, nCalls, sender_armed,
                   data_lock, running, serVars, txVars, present, wire,
                   histVars, pureVars>>

\* the channels after the clamp loop of update_values
Clamped(ch) == [i \in 1..Len(ch) |-> Clamp(ch[i])]

\* update_values: the clamp loop, then the lock is released on return
UV_ClampRelease ==
    /\ mainPc = "uv_clamp"
    /\ rc_channels' = Clamped(rc_channels)
    /\ data_lock' = "none"
    /\ committed' = rc_channels'
    /\ mainPc' = mainRet
    /\ UNCHANGED <<ctlVars, mainRet, uvVals, uvArmed, uvI, nCalls, sender_armed,
                   running, serVars, txVars, present, wire, sleepTicks,
                   ioFailed, pureVars>>

\* close(): with self.data_lock
CloseAcquire ==
    /\ mainPc = "cl_lock"
    /\ data_lock = "none"
    /\ data_lock' = "main"
    /\ mainPc' = "cl_set"
    /\ UNCHANGED <<ctlVars, mainRet, uvVals, uvArmed, uvI, nCalls, rc_channels,
                   sender_armed, running, serVars, txVars, present, wire,
                   histVars, pureVars>>

\* close(): force the disarm state, release the lock, start to sleep
CloseDisarm ==
    /\ mainPc = "cl_set"
    /\ sender_armed' = FALSE
    /\ rc_channels' = CLOSE_CHANNELS
    /\ data_lock' = "none"
    /\ committed' = rc_channels'
    /\ sleepTicks' = 0
    /\ ioFailed' = IF running THEN FALSE ELSE ioFailed
    /\ mainPc' = "cl_sleep"
    /\ UNCHANGED <<ctlVars, mainRet, uvVals, uvArmed, uvI, nCalls, running,
                   serVars, txVars, present, wire, pureVars>>

\* a close() that does not sleep before it stops the loop
SleepSkipped == TRUE

\* the transmitter is inside a serial call (open, write, flush), which can
\* take arbitrarily long
TxInSerialIO == txPc \in {"open", "write"}

\* time.sleep(self.interval * 2) has elapsed. The transmitter's period is
\* self.interval, so it has begun and ended a tick of its loop meanwhile,
\* unless its thread has ended or it is held up inside a serial call.
SleepElapsed == sleepTicks = 2 \/ txPc = "done" \/ TxInSerialIO

\* close(): the sleep ends, self.running = False
CloseStop ==
    /\ mainPc = "cl_sleep"
    /\ SleepElapsed
    /\ running' = FALSE
    /\ mainPc' = "cl_join"
    /\ ioFailed' = (ioFailed \/ (sleepTicks # 2 /\ TxInSerialIO))
    /\ UNCHANGED <<ctlVars, mainRet, uvVals, uvArmed, uvI, nCalls, rc_channels,
                   sender_armed, data_lock, serVars, txVars, present, wire,
                   committed, sleepTicks, pureVars>>

\* close(): self.thread.join(timeout=1.0) returns: the thread has ended, or
\* it is held up inside a serial call for longer than the timeout
CloseJoin ==
    /\ mainPc = "cl_join"
    /\ txPc = "done" \/ TxInSerialIO
    /\ mainPc' = "cl_ser"
    /\ ioFailed' = (ioFailed \/ txPc # "done")
    /\ UNCHANGED <<ctlVars, mainRet, uvVals, uvArmed, uvI, nCalls, senderVars,
                   serVars, txVars, present, wire, committed, sleepTicks,
                   pureVars>>

\* close(): if self.ser and self.ser.is_open: self.ser.close()
CloseSerial ==
    /\ mainPc = "cl_ser"
    /\ ser_open' = FALSE
    /\ nOpen' = IF ser # "None" /\ ser_open THEN nOpen - 1 ELSE nOpen
    /\ mainPc' = "closed"
    /\ UNCHANGED <<ctlVars, mainRet, uvVals, uvArmed, uvI, nCalls, senderVars,
                   ser, port, txVars, present, wire, histVars, pureVars>>

(* ------------------------- the transmitter thread --------------------- *)

\* the process has not exited (the transmitter is a daemon thread)
ProcessAlive == mainPc # "exited"

\* a tick begins while close() sleeps
TickBegins == IF mainPc = "cl_sleep" /\ sleepTicks = 0 THEN 1 ELSE sleepTicks

\* a tick that began while close() sleeps ends
TickEnds == IF sleepTicks = 1 THEN 2 ELSE sleepTicks

\* _sender_loop: while self.running
TxLoop ==
    /\ ProcessAlive
    /\ txPc = "loop"
    /\ txPc' = IF running THEN "open" ELSE "done"
    /\ sleepTicks' = IF running THEN TickBegins ELSE sleepTicks
    /\ UNCHANGED <<ctlVars, mainVars, senderVars, serVars, payload, present,
                   wire, committed, ioFailed, pureVars>>

\* _sender_loop: if self._start_serial()
TxStartSerial ==
    /\ ProcessAlive
    /\ txPc = "open"
    /\ LET r == StartSerial(ser, ser_open, port, present)
       IN  /\ ser' = r.ser
           /\ ser_open' = r.ser_open
           /\ port' = r.port
           /\ nOpen' = IF r.fresh THEN nOpen + 1 ELSE nOpen
           /\ txPc' = IF r.ok THEN "snap" ELSE "loop"
           /\ sleepTicks' = IF r.ok THEN sleepTicks ELSE TickEnds
           /\ ioFailed' = (ioFailed \/ ~r.ok)
    /\ UNCHANGED <<ctlVars, mainVars, senderVars, payload, present, wire,
                   committed, pureVars>>

\* a transmitter that reads without taking the lock
LockIgnored == TRUE

\* the transmitter may take self.data_lock
LockFree == data_lock = "none"

\* a transmitter that builds and writes the frame inside the locked section
TxSnapshotWritesUnderLock ==
    /\ ProcessAlive
    /\ txPc = "snap"
    /\ LockFree
    /\ payload' = Pack8H(rc_channels)
    /\ wire' = CreatePacket(MSP_SET_RAW_RC, payload')
    /\ txPc' = "loop"
    /\ UNCHANGED <<ctlVars, mainVars, senderVars, serVars, present, histVars,
                   pureVars>>

\* _sender_loop: with self.data_lock: payload = struct.pack('<8H', ...)
TxSnapshot ==
    /\ ProcessAlive
    /\ txPc = "snap"
    /\ LockFree
    /\ payload' = Pack8H(rc_channels)
    /\ txPc' = "write"
    /\ UNCHANGED <<ctlVars, mainVars, senderVars, serVars, present, wire,
                   histVars, pureVars>>

\* the serial write and flush of the transmitter succeed
WriteSucceeds == ser # "None" /\ ser_open /\ ser \in present

\* _sender_loop: packet = _create_packet(...); self.ser.write(packet); flush
TxWrite ==
    /\ ProcessAlive
    /\ txPc = "write"
    /\ WriteSucceeds
    /\ wire' = CreatePacket(MSP_SET_RAW_RC, payload)
    /\ txPc' = "loop"
    /\ sleepTicks' = TickEnds
    /\ UNCHANGED <<ctlVars, mainVars, senderVars, serVars, payload, present,
                   committed, ioFailed, pureVars>>

\* a write error path that keeps the handle it failed on
TxWriteErrorKeepsHandle ==
    /\ ProcessAlive
    /\ txPc = "write"
    /\ ~WriteSucceeds
    /\ txPc' = "loop"
    /\ sleepTicks' = TickEnds
    /\ ioFailed' = TRUE
    /\ UNCHANGED <<ctlVars, mainVars, senderVars, serVars, payload, present,
                   wire, committed, pureVars>>

\* _sender_loop: the write raises: self.ser.close(); self.ser = None
TxWriteError ==
    /\ ProcessAlive
    /\ txPc = "write"
    /\ ~WriteSucceeds
    /\ ser' = "None"
    /\ ser_open' = FALSE
    /\ nOpen' = IF ser # "None" /\ ser_open THEN nOpen - 1 ELSE nOpen
    /\ txPc' = "loop"
    /\ sleepTicks' = TickEnds
    /\ ioFailed' = TRUE
    /\ UNCHANGED <<ctlVars, mainVars, senderVars, port, payload, present, wire,
                   committed, pureVars>>

(* --------------------------- serial devices --------------------------- *)

\* the primary device alone is plugged in or pulled out
PrimarySets == {{}, {DEFAULT_PORT}}

\* the primary device or the first fallback is plugged in, or neither
PresentSets == {{}, {DEFAULT_PORT}, {Fallbacks[1]}}

\* the set of present devices changes to another one of S
EnvChangeIn(S) ==
    /\ ProcessAlive
    /\ \E P \in S \ {present} : present' = P
    /\ UNCHANGED <<ctlVars, mainVars, senderVars, serVars, txVars, wire,
                   histVars, pureVars>>

EnvPrimary == EnvChangeIn(PrimarySets)

EnvChange == EnvChangeIn(PresentSets)

(* --------------------- a direct client of MSPSender ------------------- *)

\* values a client passes as filtered_vals, as numerators over Scale
FloatSamples == {-5 * Scale, 5 * Scale}

SenderInputs ==
    {[a \in Axes |-> v] : v \in FloatSamples}
    \cup {[roll |-> -Scale, pitch |-> Scale \div 2, yaw |-> 0,
           throttle |-> Scale \div 4]}

\* a client calls update_values(vals, a)
ClientUpdate ==
    /\ mainPc \in {"idle", "closed"}
    /\ nCalls < MaxCalls
    /\ \E vals \in SenderInputs, a \in BOOLEAN :
         /\ mainPc' = "uv_lock"
         /\ mainRet' = mainPc
         /\ uvVals' = vals
         /\ uvArmed' = a
    /\ nCalls' = nCalls + 1
    /\ UNCHANGED <<ctlVars, uvI, senderVars, serVars, txVars, present, wire,
                   histVars, pureVars>>

\* a client calls close()
ClientClose ==
    /\ mainPc \in {"idle", "closed"}
    /\ nCalls < MaxCalls
    /\ mainPc' = "cl_lock"
    /\ nCalls' = nCalls + 1
    /\ UNCHANGED <<ctlVars, mainRet, uvVals, uvArmed, uvI, senderVars, serVars,
                   txVars, present, wire, histVars, pureVars>>

(* -------------------------- ControllerHandler ------------------------- *)

\* ControllerHandler._normalize: the result as the fraction num / den. The
\* dead zone test abs(delta) < max_range * 0.05 is taken exactly.
HNormalize(value, info, key, invert) ==
    IF key = "throttle"
      THEN LET n == value - info.min
               d == info.max - info.min
           IN  [num |-> IF invert THEN d - n ELSE n, den |-> d]
    ELSE IF key \in {"dpad_x", "dpad_y"}
      THEN [num |-> value, den |-> 1]
    ELSE LET center == (info.max + info.min) \div 2
             max_range == (info.max - info.min) \div 2
             delta == value - center
             n == Max(-max_range, Min(max_range, delta))
         IN  IF Abs(delta) * 100 < max_range * 5
               THEN [num |-> 0, den |-> 1]
               ELSE [num |-> IF invert THEN -n ELSE n, den |-> max_range]

\* the handler's floats are numerators over HScale: a trigger sample is a
\* multiple of 1/255, a stick sample of 1/127, a filter step divides by
\* HALPHA_DEN
HScale == 255 * MAX_RANGE * (HALPHA_DEN ^ MaxHandlerEvents)

\* the absinfo evdev reports for a PS4 stick or trigger
PS4Info == [min |-> 0, max |-> 255]

\* self.axis_map of start(), without the d-pad
AxisMap == [ABS_X |-> "yaw", ABS_RX |-> "roll", ABS_RY |-> "pitch",
            ABS_RZ |-> "throttle"]

\* PS4Buttons.OPTIONS, SHARE and PS
ButtonCodes == {"BTN_START", "BTN_SELECT", "BTN_MODE"}

\* ControllerHandler._apply_lpf
HApplyLpf(new, old) ==
    (HALPHA_NUM * new + (HALPHA_DEN - HALPHA_NUM) * old) \div HALPHA_DEN

\* self.rc_values, self.buttons (an absent code reads as 0) and the locals
\* of _run before any event, the thread started; n counts the filter steps
HandlerInit ==
    [raw |-> ResetInputs,
     filtered |-> ResetInputs,
     rc_values |-> [roll |-> 1500, pitch |-> 1500, throttle |-> 1000,
                    yaw |-> 1500],
     buttons |-> [c \in ButtonCodes |-> 0],
     running |-> TRUE,
     n |-> 0]

\* main(): nothing sent to the flight controller yet, the loop running
DroneInit == [cmds |-> <<>>, override |-> <<>>, looping |-> TRUE]

\* the stick and trigger events the handler is fed
HandlerAbsEvents ==
    [code : {"ABS_RZ"}, value : {0, 51, 255}]
    \cup [code : {"ABS_RX"}, value : {127, 255}]
    \cup [code : {"ABS_RY", "ABS_X"}, value : {0}]

\* the button events the handler is fed: release, press, auto-repeat
HandlerKeyEvents == [code : ButtonCodes, value : {0, 1, 2}]

\* _run for an EV_ABS event of a mapped stick or trigger
HandlerAbs(e) ==
    /\ e \in HandlerAbsEvents
    /\ handler.running
    /\ handler.n < MaxHandlerEvents
    /\ LET key == AxisMap[e.code]
           r == HNormalize(e.value, PS4Info, key, key = "pitch")
           val == r.num * (HScale \div r.den)
           raw_state == [handler.raw EXCEPT ![key] = val]
           filtered_state ==
               [a \in Axes |-> HApplyLpf(raw_state[a], handler.filtered[a])]
           \* int() of a positive float is its floor
           rc == IF key = "throttle"
                   THEN 1000 + ((filtered_state[key] * 250) \div HScale)
                   ELSE 1500 + ((filtered_state[key] * 500) \div HScale)
       IN  handler' = [handler EXCEPT !.raw = raw_state,
                                      !.filtered = filtered_state,
                                      !.rc_values[key] = rc,
                                      !.n = @ + 1]
    /\ UNCHANGED <<ctlVars, mainVars, senderVars, serVars, txVars, present,
                   wire, histVars, msp_in, msp_out, crsf_in, crsf_out,
                   normVars, drone>>

\* _run for an EV_KEY event: self.buttons[event.code] = event.value
HandlerKey(e) ==
    /\ e \in HandlerKeyEvents
    /\ handler.running
    /\ handler' = [handler EXCEPT !.buttons[e.code] = e.value]
    /\ UNCHANGED <<ctlVars, mainVars, senderVars, serVars, txVars, present,
                   wire, histVars, msp_in, msp_out, crsf_in, crsf_out,
                   normVars, drone>>

\* ControllerHandler.get_rc_values
GetRcValues ==
    [k \in Axes |-> Max(1000, Min(2000, handler.rc_values[k]))]

\* ControllerHandler.is_button_pressed
IsButtonPressed(c) == handler.buttons[c] = 1

\* the commands one pass of main()'s loop sends before the override
LoopCommands(rc) ==
    (IF IsButtonPressed("BTN_START") /\ rc["throttle"] < ARM_RC_LIMIT
       THEN <<"arm">> ELSE <<>>)
    \o (IF IsButtonPressed("BTN_SELECT") THEN <<"disarm">> ELSE <<>>)

\* one pass of the loop of main(); the PS button disarms, leaves the loop
\* and runs the cleanup of the finally clause
MainIteration ==
    /\ drone.looping
    /\ LET rc == GetRcValues
       IN  IF IsButtonPressed("BTN_MODE")
             THEN /\ drone' = [drone EXCEPT !.cmds = <<"disarm", "release">>,
                                            !.looping = FALSE]
                  /\ handler' = [handler EXCEPT !.running = FALSE]
             ELSE /\ drone' = [drone EXCEPT
                                 !.cmds = LoopCommands(rc),
                                 !.override = <<rc["roll"], rc["pitch"],
                                                rc["throttle"], rc["yaw"]>>]
                  /\ UNCHANGED handler
    /\ UNCHANGED <<ctlVars, mainVars, senderVars, serVars, txVars, present,
                   wire, histVars, msp_in, msp_out, crsf_in, crsf_out,
                   normVars>>

\* KeyboardInterrupt in main(): the finally clause releases the override
\* and stops the handler
MainInterrupt ==
    /\ drone.looping
    /\ drone' = [drone EXCEPT !.cmds = <<"release">>, !.looping = FALSE]
    /\ handler' = [handler EXCEPT !.running = FALSE]
    /\ UNCHANGED <<ctlVars, mainVars, senderVars, serVars, txVars, present,
                   wire, histVars, msp_in, msp_out, crsf_in, crsf_out,
                   normVars>>

(* ----------------------------- behaviours ----------------------------- *)

\* the input thread between two events and MSPSender() just constructed,
\* with the devices P present
SenderInit(P) ==
    /\ mainPc = "idle"
    /\ mainRet = "idle"
    /\ uvVals = ResetInputs
    /\ uvArmed = FALSE
    /\ uvI = 0
    /\ nCalls = 0
    /\ rc_channels = INIT_CHANNELS
    /\ sender_armed = FALSE
    /\ data_lock = "none"
    /\ running = TRUE
    /\ present = P
    /\ LET r == StartSerial("None", FALSE, DEFAULT_PORT, P)
       IN  /\ ser = r.ser
           /\ ser_open = r.ser_open
           /\ port = r.port
           /\ nOpen = IF r.fresh THEN 1 ELSE 0
    /\ txPc = "loop"
    /\ payload = <<>>
    /\ wire = <<>>
    /\ committed = INIT_CHANNELS
    /\ sleepTicks = 0
    /\ ioFailed = FALSE

\* the gate Disarmed, with the stick values f
ControllerInit(f) ==
    /\ armed = FALSE
    /\ raw = f
    /\ filtered = f
    /\ event = NoEvent
    /\ nAxis = 0

\* the state after DroneController() / MSPSender() have been constructed,
\* with the devices P present
SystemInit(P) == ControllerInit(ResetInputs) /\ SenderInit(P)

\* no sample is being normalized
NormIdle ==
    /\ norm_in = <<>>
    /\ norm_out = <<>>

\* ControllerHandler.__init__ and _run's locals before the first event;
\* main() before its first loop iteration
CmdIdle ==
    /\ handler = HandlerInit
    /\ drone = DroneInit

PureIdle ==
    /\ msp_in = <<>>
    /\ msp_out = <<>>
    /\ crsf_in = <<>>
    /\ crsf_out = <<>>
    /\ NormIdle
    /\ CmdIdle

Init == (\E P \in PrimarySets : SystemInit(P)) /\ PureIdle

InitSender == (\E P \in PresentSets : SystemInit(P)) /\ PureIdle

SenderSteps ==
    \/ UV_Acquire
    \/ UV_SetArmed
    \/ UV_Safe
    \/ UV_Map
    \/ UV_ClampRelease
    \/ CloseAcquire
    \/ CloseDisarm
    \/ CloseStop
    \/ CloseJoin
    \/ CloseSerial
    \/ TxLoop
    \/ TxStartSerial
    \/ TxSnapshot
    \/ TxWrite
    \/ TxWriteError

\* controller.py: the input thread of DroneController, its signal handler,
\* the sender and its transmitter thread
Next ==
    \/ \E e \in KeyEvents : ProcessKey(e)
    \/ \E e \in AxisEvents : ProcessAxis(e)
    \/ \E e \in OtherEvents : ProcessOther(e)
    \/ SignalHandler
    \/ SysExit
    \/ EnvPrimary
    \/ SenderSteps

Spec == Init /\ [][Next]_vars

\* MSPSender under a client that calls update_values and close directly
NextSender ==
    \/ ClientUpdate
    \/ ClientClose
    \/ EnvChange
    \/ SenderSteps

SpecSender == InitSender /\ [][NextSender]_vars

\* the transmitter thread is scheduled: a step of _sender_loop that stays
\* possible is taken
TxFairness ==
    /\ WF_vars(TxLoop)
    /\ WF_vars(TxStartSerial)
    /\ WF_vars(TxSnapshot)
    /\ WF_vars(TxWrite)
    /\ WF_vars(TxWriteError)

\* the calling thread is scheduled: once inside close() it goes on to
\* release the lock
CallerFairness == WF_vars(CloseAcquire \/ CloseDisarm)

\* MSPSender() constructed with no serial device plugged in
InitLink == SystemInit({}) /\ PureIdle

\* the transmitter, the devices and a client that only calls close()
NextLink ==
    \/ EnvChange
    \/ TxLoop
    \/ TxStartSerial
    \/ TxSnapshot
    \/ TxWrite
    \/ TxWriteError
    \/ ClientClose
    \/ CloseAcquire
    \/ CloseDisarm
    \/ CloseStop
    \/ CloseJoin
    \/ CloseSerial

\* the link on its own, with both threads scheduled
SpecLink == InitLink /\ [][NextLink]_vars /\ TxFairness /\ CallerFairness

(* ---------------------- the arming gate on its own -------------------- *)

\* filtered throttle levels at which the arm command is tried: 0.00, 0.01,
\* ... 0.10, which has the threshold 0.05 in it, and 0.5 and 1
GateSamples ==
    {k * (Scale \div 100) : k \in 0..10} \cup {Scale \div 2, Scale}

\* the stick held still at a throttle level, the filter settled on it
InitGate ==
    /\ \E t \in GateSamples :
          ControllerInit([ResetInputs EXCEPT !["throttle"] = t])
    /\ SenderInit({DEFAULT_PORT})
    /\ PureIdle

\* button and sync events alone
NextGate ==
    \/ \E e \in KeyEvents : ProcessKey(e)
    \/ \E e \in OtherEvents : ProcessOther(e)

SpecGate == InitGate /\ [][NextGate]_vars

(* ---------------------- the normalizers on their own ------------------ *)

\* raw samples: the whole reported range 0..255 and some way beyond it
RawSamples == (-40)..300

\* the absinfo of a PS4 stick or trigger
AbsInfos == {[min |-> 0, max |-> 255]}

\* the calls: DroneController's stick and throttle, ControllerHandler's
\* stick, inverted stick and trigger
NormInputs ==
    [fn : {"controller_stick", "controller_throttle"}, value : RawSamples,
     invert : BOOLEAN, info : AbsInfos, key : {"none"}]
    \cup [fn : {"handler"}, value : RawSamples, invert : BOOLEAN,
          info : AbsInfos, key : {"roll", "throttle"}]

\* one call of a normalizer; self.raw["throttle"] of DroneController is
\* (self._normalize(event.value, invert=True) + 1) / 2
NormApply ==
    /\ norm_in # <<>>
    /\ norm_out = <<>>
    /\ norm_out' =
         CASE norm_in.fn = "controller_stick" ->
                [num |-> Normalize(norm_in.value, norm_in.invert), den |-> Scale]
           [] norm_in.fn = "controller_throttle" ->
                [num |-> (Normalize(norm_in.value, TRUE) + Scale) \div 2,
                 den |-> Scale]
           [] norm_in.fn = "handler" ->
                HNormalize(norm_in.value, norm_in.info, norm_in.key,
                           norm_in.invert)
    /\ UNCHANGED <<ctlVars, mainVars, senderVars, serVars, txVars, present,
                   wire, histVars, msp_in, msp_out, crsf_in, crsf_out,
                   norm_in, cmdVars>>

InitNorm ==
    /\ SystemInit({})
    /\ msp_in = <<>>
    /\ msp_out = <<>>
    /\ crsf_in = <<>>
    /\ crsf_out = <<>>
    /\ norm_in \in NormInputs
    /\ norm_out = <<>>
    /\ CmdIdle

NextNorm == NormApply

SpecNorm == InitNorm /\ [][NextNorm]_vars

(* ------------------------ the filters on their own -------------------- *)

\* the values an axis of DroneController takes: sticks and throttle
ControllerAxisValues ==
    {Normalize(v, FALSE) : v \in 0..255}
    \cup {(Normalize(v, TRUE) + Scale) \div 2 : v \in 0..255}

\* the values an axis of ControllerHandler takes: sticks and trigger
HandlerAxisValues ==
    {HNormalize(v, PS4Info, "roll", FALSE).num * (HScale \div MAX_RANGE) :
        v \in 0..255}
    \cup {v * (HScale \div 255) : v \in 0..255}

\* filter runs: the input new held steady, the filtered value starting at
\* new itself or at rest
LpfRuns(fn, values) ==
    UNION {{[fn |-> fn, new |-> x, start |-> y, old |-> y, n |-> 0] :
               y \in {x, 0}} : x \in values}

LpfInputs ==
    LpfRuns("controller_lpf", ControllerAxisValues)
    \cup LpfRuns("handler_lpf", HandlerAxisValues)

\* filtered = self._apply_lpf(raw, filtered), once more with the same raw
LpfApply ==
    /\ norm_in # <<>>
    /\ norm_in.n < MaxLpfSteps
    /\ LET f == IF norm_in.fn = "controller_lpf"
                  THEN ApplyLpf(norm_in.new, norm_in.old)
                  ELSE HApplyLpf(norm_in.new, norm_in.old)
       IN  /\ norm_out' = [num |-> f,
                           den |-> IF norm_in.fn = "controller_lpf"
                                     THEN Scale ELSE HScale]
           /\ norm_in' = [norm_in EXCEPT !.old = f, !.n = @ + 1]
    /\ UNCHANGED <<ctlVars, mainVars, senderVars, serVars, txVars, present,
                   wire, histVars, msp_in, msp_out, crsf_in, crsf_out,
                   cmdVars>>

InitLpf ==
    /\ SystemInit({})
    /\ msp_in = <<>>
    /\ msp_out = <<>>
    /\ crsf_in = <<>>
    /\ crsf_out = <<>>
    /\ norm_in \in LpfInputs
    /\ norm_out = <<>>
    /\ CmdIdle

NextLpf == LpfApply

SpecLpf == InitLpf /\ [][NextLpf]_vars

(* --------------------- the command/telemetry variant ------------------ *)

InitCmd == SystemInit({}) /\ PureIdle

NextCmd ==
    \/ \E e \in HandlerAbsEvents : HandlerAbs(e)
    \/ \E e \in HandlerKeyEvents : HandlerKey(e)
    \/ MainIteration
    \/ MainInterrupt

SpecCmd == InitCmd /\ [][NextCmd]_vars

(* ------------------ the framing functions on their own ---------------- *)

\* channel values fed to the MSP packer
MspSamples == {0, 255, 256, 1000, 1500, 2000, 65535}

\* vectors of 8 channel values: slots 0..2 range over MspSamples, 3..7 over
\* the two values the sender stores there when disarmed
MspInputs ==
    {<<a, b, c>> \o t : a \in MspSamples, b \in MspSamples, c \in MspSamples,
                        t \in {<<1000, 1000, 1000, 1000, 1000>>,
                               <<1500, 1000, 1000, 1000, 1000>>,
                               <<1000, 2000, 1000, 1500, 2000>>}}

\* verify_msp.test_msp_packet: pack the channels and frame them
MspEncode ==
    /\ msp_in # <<>>
    /\ msp_out = <<>>
    /\ msp_out' = CreatePacket(MSP_SET_RAW_RC, Pack8H(msp_in))
    /\ UNCHANGED <<ctlVars, mainVars, senderVars, serVars, txVars, present,
                   wire, histVars, msp_in, crsf_in, crsf_out, normVars,
                   cmdVars>>

InitMSP ==
    /\ SystemInit({})
    /\ msp_in \in MspInputs
    /\ msp_out = <<>>
    /\ crsf_in = <<>>
    /\ crsf_out = <<>>
    /\ NormIdle
    /\ CmdIdle

NextMSP == MspEncode

SpecMSP == InitMSP /\ [][NextMSP]_vars

\* channel values fed to the CRSF packer: the protocol's floor, centre and
\* ceiling, the 11-bit extremes, two alternating bit patterns, and one value
\* that needs more than 11 bits
CrsfSamples == {0, 191, 682, 992, 1365, 1792, 2047, 3000}

\* vectors of 16 channel values: the slots take three values in rotation
CrsfInputs ==
    {<<a, b, c, a, b, c, a, b, c, a, b, c, a, b, c, a>> :
        a \in CrsfSamples, b \in CrsfSamples, c \in CrsfSamples}

\* verify_crsf.test_crsf: frame = create_crsf_frame(rc_channels)
CrsfEncode ==
    /\ crsf_in # <<>>
    /\ crsf_out = <<>>
    /\ crsf_out' = create_crsf_frame(crsf_in)
    /\ UNCHANGED <<ctlVars, mainVars, senderVars, serVars, txVars, present,
                   wire, histVars, msp_in, msp_out, crsf_in, normVars,
                   cmdVars>>

InitCRSF ==
    /\ SystemInit({})
    /\ msp_in = <<>>
    /\ msp_out = <<>>
    /\ crsf_in \in CrsfInputs
    /\ crsf_out = <<>>
    /\ NormIdle
    /\ CmdIdle

NextCRSF == CrsfEncode

SpecCRSF == InitCRSF /\ [][NextCRSF]_vars

(* ============== claims about the gate and the sender ================== *)

\* the 16-bit little-endian word at bytes i, i+1 of a byte sequence
Word(b, i) == b[i] + 256 * b[i + 1]

\* channel k of a packed payload, and of a whole MSP packet on the wire
PayloadChannel(pl, k) == Word(pl, 2 * k - 1)
WireChannel(pkt, k) == Word(pkt, 4 + 2 * k)

ArmPress == [type |-> "EV_KEY", code |-> "BTN_SOUTH", value |-> 1]
DisarmPresses ==
    [type : {"EV_KEY"}, code : {"BTN_NORTH", "BTN_EAST"}, value : {1}]
KillPress == [type |-> "EV_KEY", code |-> "BTN_START", value |-> 1]

\* a payload that encodes a disarmed frame: AUX1 is 1000 and roll, pitch,
\* yaw and throttle are at the safe defaults, in either of the two slot
\* orders the sender uses for them
DisarmedPayload(pl) ==
    /\ PayloadChannel(pl, 5) = 1000
    /\ <<PayloadChannel(pl, 1), PayloadChannel(pl, 2),
         PayloadChannel(pl, 3), PayloadChannel(pl, 4)>>
           \in {<<1500, 1500, 1500, 1000>>, <<1500, 1500, 1000, 1500>>}

\* C1 - Once a disarm command (Triangle or Circle) has been processed and
\* the controller waits for the next event, every frame the transmitter
\* encodes is a disarmed frame: AUX1 = 1000 and the primary channels at the
\* safe defaults, with no further input event needed.
C1_DisarmNextFrame ==
    [][(/\ event \in DisarmPresses
        /\ ~armed
        /\ mainPc = "idle"
        /\ txPc = "snap"
        /\ txPc' = "write") => DisarmedPayload(payload')]_vars

\* C2 - An arm command (X press) while the gate is Disarmed arms the gate
\* if the filtered throttle is below 0.05 and is refused, the gate staying
\* Disarmed, if it is not.
C2_ArmGate ==
    [][(~armed /\ mainPc = "idle" /\ ProcessKey(ArmPress)) =>
          IF filtered["throttle"] * 20 < Scale THEN armed' ELSE ~armed']_vars

\* an arm command has just been refused: the filtered throttle is 0.05 or
\* more and the gate is Disarmed
C2_Witness ==
    /\ event = ArmPress
    /\ mainPc = "idle"
    /\ ~armed
    /\ filtered["throttle"] * 20 >= Scale

C4_DisarmedVector ==
    (~sender_armed /\ data_lock = "none") =>
        rc_channels = <<1500, 1500, 1500, 1000, 1000, 1000, 1000, 1000>>

\* C5 - The gate starts Disarmed; it goes from Disarmed to Armed only in the
\* step that processes an arm command (X press), and from Armed to Disarmed
\* only in a step that processes a disarm command (Triangle or Circle
\* press) or the kill switch (Options press), or in the signal handler;
\* every other step leaves it as it is.
C5_GateTransitions ==
    /\ ~armed
    /\ [][/\ (~armed /\ armed') => (mainPc = "idle" /\ event' = ArmPress)
          /\ (armed /\ ~armed') =>
                \/ mainPc = "idle" /\ event' \in DisarmPresses \cup {KillPress}
                \/ SignalHandler]_vars

\* the gate was armed, the stick moved, and a disarm command has disarmed
\* the gate and reset the inputs
C5_Witness ==
    /\ ~armed
    /\ event \in DisarmPresses
    /\ nAxis > 0
    /\ sender_armed
    /\ filtered = ResetInputs

\* C6 - The payload the transmitter packs is the whole channel vector that
\* the most recent update completed before the transmitter took the lock
\* had committed, never a mix of two updates.
C6_NoTornRead ==
    [][(txPc = "snap" /\ txPc' = "write") => payload' = Pack8H(committed)]_vars

\* the transmitter holds a payload of an armed update while a later update
\* is halfway through rewriting the vector
C6_Witness ==
    /\ txPc = "write"
    /\ data_lock = "main"
    /\ rc_channels # committed
    /\ committed[5] = 2000
    /\ payload = Pack8H(committed)

\* C7 - After any sequence of update_values and close calls, with any
\* inputs, all 8 channel values lie in [1000, 2000], in the sender's state
\* once the lock is released, in the packed payload and on the wire.
C7_ChannelsInRange ==
    /\ data_lock = "none" => \A k \in 1..8 : rc_channels[k] \in 1000..2000
    /\ payload # <<>> => \A k \in 1..8 : PayloadChannel(payload, k) \in 1000..2000
    /\ wire # <<>> => \A k \in 1..8 : WireChannel(wire, k) \in 1000..2000

\* an armed update with roll 5.0 has completed and its frame, roll clamped
\* to 2000, is on the wire
C7_Witness ==
    /\ uvVals["roll"] = 5 * Scale
    /\ sender_armed
    /\ data_lock = "none"
    /\ rc_channels[1] = 2000
    /\ wire # <<>>
    /\ WireChannel(wire, 1) = 2000

(* ================= claims about the framing functions ================= *)

\* the bytes i..j of a byte sequence XOR to 0: in every bit position an
\* even number of them has the bit set
XorIsZero(bytes, i, j) ==
    \A b \in 0..7 : Cardinality({k \in i..j : Bit(bytes[k], b) = 1}) % 2 = 0

\* C8 - For every vector of 8 channel values the MSP packet is '$M<', a
\* length byte 16, an id byte 200, the 8 values as little-endian 16-bit
\* words and one checksum byte that makes the XOR of all bytes from the
\* length byte through the checksum byte 0; for
\* [1500,1500,1500,1000,1000,1000,1000,1000] the checksum is 0xEA.
C8_MspPacketLayout ==
    msp_out # <<>> =>
        /\ Len(msp_out) = 3 + 2 + 16 + 1
        /\ SubSeq(msp_out, 1, 3) = <<36, 77, 60>>
        /\ msp_out[4] = 16
        /\ msp_out[5] = 200
        /\ \A i \in 1..Len(msp_out) : msp_out[i] \in 0..255
        /\ \A k \in 1..8 : msp_out[4 + 2 * k] + 256 * msp_out[5 + 2 * k] = msp_in[k]
        /\ XorIsZero(msp_out, 4, 22)
        /\ (msp_in = <<1500, 1500, 1500, 1000, 1000, 1000, 1000, 1000>>
              => msp_out[22] = 234)

C8_Witness ==
    /\ msp_in = <<1500, 1500, 1500, 1000, 1000, 1000, 1000, 1000>>
    /\ msp_out # <<>>
    /\ msp_out[22] = 234

\* the reference CRC8: the remainder of the message, as a polynomial over
\* GF(2) times x^8, divided by x^8+x^7+x^6+x^4+x^2+1 (0xD5), computed by a
\* bit-serial shift register. One step feeds message bit m into the
\* feedback of register r; the taps are the bits of 0xD5.
RefTaps == {0, 2, 4, 6, 7}

RefStep(r, m) ==
    LET fb == ((r \div 128) + m) % 2
        sh == (r * 2) % 256
        flip(b) == IF b \in RefTaps THEN 1 - Bit(sh, b) ELSE Bit(sh, b)
    IN  IF fb = 0 THEN sh
        ELSE flip(0) + 2 * flip(1) + 4 * flip(2) + 8 * flip(3) + 16 * flip(4)
             + 32 * flip(5) + 64 * flip(6) + 128 * flip(7)

\* the register after the eight bits of byte b, most significant bit first
RefByte(r, b) ==
    RefStep(RefStep(RefStep(RefStep(RefStep(RefStep(RefStep(RefStep(r,
        Bit(b, 7)), Bit(b, 6)), Bit(b, 5)), Bit(b, 4)), Bit(b, 3)),
        Bit(b, 2)), Bit(b, 1)), Bit(b, 0))

RECURSIVE RefCrc8Upto(_, _)
\* the register after the first n bytes of data; it is an 8-bit register
RefCrc8Upto(data, n) ==
    IF n = 0 THEN 0
    ELSE LET r == RefCrc8Upto(data, n - 1)
         IN  CASE r \in 0..255 -> RefByte(r, data[n])

RefCrc8(data) == RefCrc8Upto(data, Len(data))

\* the 11-bit value of channel k (1-based) read back from a payload:
\* channel k occupies payload bits 11(k-1) .. 11(k-1)+10, bit 0 first
PayloadBit(pl, g) == Bit(pl[(g \div 8) + 1], g % 8)

Unpack(pl, k) ==
    LET bit(i) == PayloadBit(pl, CRSF_BITS * (k - 1) + i)
    IN  bit(0) + 2 * bit(1) + 4 * bit(2) + 8 * bit(3) + 16 * bit(4)
        + 32 * bit(5) + 64 * bit(6) + 128 * bit(7) + 256 * bit(8)
        + 512 * bit(9) + 1024 * bit(10)

\* C9 - For every vector of 16 channel values create_crsf_frame returns a
\* 26-byte frame: byte 0 is 0xC8, byte 1 is 24, byte 2 is 0x16, then the
\* 22-byte payload (every channel's low 11 bits), and a last byte equal to
\* the reference CRC8 (polynomial 0xD5, seed 0, MSB-first) of the type byte
\* and the payload, sync and length excluded.
C9_CrsfFrameLayout ==
    crsf_out # <<>> =>
        /\ Len(crsf_out) = 26
        /\ crsf_out[1] = 200
        /\ crsf_out[2] = 24
        /\ crsf_out[3] = 22
        /\ \A i \in 1..Len(crsf_out) : crsf_out[i] \in 0..255
        /\ \A k \in 1..16 : Unpack(SubSeq(crsf_out, 4, 25), k) = crsf_in[k] % 2048
        /\ crsf_out[26] = RefCrc8(SubSeq(crsf_out, 3, 25))

C9_Witness ==
    /\ crsf_in = <<992, 992, 992, 992, 992, 992, 992, 992,
                   992, 992, 992, 992, 992, 992, 992, 992>>
    /\ crsf_out # <<>>
    /\ crsf_out[26] = 173

\* C10 - CRSF bit-packing round-trips: for every vector of 16 values in
\* [0, 2047], unpacking the 22-byte payload with the inverse LSB-first
\* layout reproduces every channel value.
C10_CrsfRoundTrip ==
    (crsf_out # <<>> /\ \A k \in 1..16 : crsf_in[k] \in 0..2047) =>
        \A k \in 1..16 : Unpack(SubSeq(crsf_out, 4, 25), k) = crsf_in[k]

C10_Witness ==
    /\ crsf_out # <<>>
    /\ \A k \in 1..16 : crsf_in[k] = IF k % 3 = 1 THEN 2047
                                     ELSE IF k % 3 = 2 THEN 0 ELSE 1365
    /\ \A k \in 1..16 : Unpack(SubSeq(crsf_out, 4, 25), k) = crsf_in[k]


(* ============ claims about the serial link and the shutdown =========== *)

\* the paths _start_serial tries, in order, written out
CandidatePaths ==
    <<port>> \o SelectSeq(<<"/dev/ttyACM1", "/dev/ttyUSB0", "/dev/ttyUSB1">>,
                          LAMBDA q : q # port)

\* C11 - _start_serial is idempotent: with the handle open it returns
\* success and opens nothing and leaves the handle; otherwise it keeps the
\* first candidate path, in order, that opens, and it fails, leaving no
\* handle, only when no candidate opens. At most one serial endpoint is
\* open at any time.
C11_StartSerialIdempotent ==
    /\ [](nOpen <= 1 /\ (nOpen = 1 <=> (ser # "None" /\ ser_open)))
    /\ [][(txPc = "open" /\ txPc' # "open") =>
            IF ser # "None" /\ ser_open
              THEN /\ ser' = ser /\ ser_open' /\ nOpen' = nOpen
                   /\ txPc' = "snap"
              ELSE LET opens == {i \in 1..Len(CandidatePaths) :
                                    CandidatePaths[i] \in present}
                   IN  IF opens = {}
                         THEN /\ ser' = "None" /\ ~ser_open' /\ nOpen' = nOpen
                              /\ txPc' = "loop"
                         ELSE \E i \in opens :
                                /\ \A j \in opens : i <= j
                                /\ ser' = CandidatePaths[i]
                                /\ ser_open' /\ nOpen' = nOpen + 1
                                /\ txPc' = "snap"]_vars

\* a tick after the first has passed _start_serial with the link on the
\* first fallback path, one endpoint open
C11_Witness ==
    /\ txPc = "snap"
    /\ wire # <<>>
    /\ ser = "/dev/ttyACM1"
    /\ ser_open
    /\ nOpen = 1

\* C12 - A write failure in a transmitter tick closes and clears the
\* handle and drops the frame of that tick: nothing reaches the wire but the
\* frame packed in the tick that writes it. The loop keeps running, the
\* next tick goes to _start_serial again, and the frame it packs is built
\* from the channel vector of that moment.
C12_WriteFailureDropsFrame ==
    [][/\ (txPc = "write" /\ txPc' # "write") =>
            IF ser # "None" /\ ser_open /\ ser \in present
              THEN wire' = CreatePacket(MSP_SET_RAW_RC, payload)
              ELSE /\ ser' = "None" /\ ~ser_open'
                   /\ wire' = wire
                   /\ txPc' = "loop"
                   /\ running' = running
       /\ (wire' # wire) =>
            (txPc = "write" /\ wire' = CreatePacket(MSP_SET_RAW_RC, payload))
       /\ (txPc = "loop" /\ running /\ txPc' # txPc) => txPc' = "open"
       /\ (txPc = "snap" /\ txPc' = "write") =>
            payload' = Pack8H(rc_channels)]_vars

\* a write has failed: the handle is cleared, the loop runs on, and the
\* frame that was packed is not the one on the wire
C12_Witness ==
    /\ txPc = "loop"
    /\ running
    /\ ser = "None"
    /\ payload # <<>>
    /\ wire # <<>>
    /\ wire # CreatePacket(MSP_SET_RAW_RC, payload)

C15_InputsZeroOnDisarm ==
    [][(armed /\ ~armed') =>
          /\ \A a \in Axes : raw'[a] = 0
          /\ \A a \in Axes : filtered'[a] = 0]_vars

(* ===================== claims about the normalizers =================== *)

\* the sample went to a stick normalizer
StickCall ==
    \/ norm_in.fn = "controller_stick"
    \/ norm_in.fn = "handler" /\ norm_in.key = "roll"

\* centre and half range of the axis the sample belongs to
AxisCenter == IF norm_in.fn = "handler"
                THEN (norm_in.info.max + norm_in.info.min) \div 2
                ELSE CENTER
AxisHalfRange == IF norm_in.fn = "handler"
                   THEN (norm_in.info.max - norm_in.info.min) \div 2
                   ELSE MAX_RANGE

\* C16 - For every raw stick sample with |raw - center| < 5% of the half
\* range, the stick normalizers of DroneController and of ControllerHandler
\* return exactly 0.0.
C16_DeadZoneFivePercent ==
    (/\ norm_out # <<>>
     /\ StickCall
     /\ Abs(norm_in.value - AxisCenter) * 100 < 5 * AxisHalfRange)
       => norm_out.num = 0

\* C17 - For any integer raw input, also outside the reported range, stick
\* normalization returns a value in [-1, 1] and throttle normalization a
\* value in [0, 1], for DroneController and for ControllerHandler alike.
C17_NormalizedRange ==
    norm_out # <<>> =>
        IF StickCall
          THEN -norm_out.den <= norm_out.num /\ norm_out.num <= norm_out.den
          ELSE 0 <= norm_out.num /\ norm_out.num <= norm_out.den

\* C18 - For any input channel value, also below 191, above 1792 or wider
\* than 11 bits, the 11-bit value recovered from the frame payload for each
\* channel lies in [191, 1792].
C18_CrsfChannelsClamped ==
    crsf_out # <<>> =>
        \A k \in 1..16 :
            /\ 191 <= Unpack(SubSeq(crsf_out, 4, 25), k)
            /\ Unpack(SubSeq(crsf_out, 4, 25), k) <= 1792

\* the main thread waits for data_lock while a frame of its own, the one the
\* signal handler interrupted, holds it: threading.Lock is not reentrant and
\* the interrupted frame resumes only after the handler returns, so no step
\* ever releases the lock
HandlerSelfBlocked ==
    /\ mainPc \in {"uv_lock", "cl_lock"}
    /\ data_lock = "main"

\* C19 - A shutdown signal or a kill arriving at any point of the input
\* thread's execution, also while that thread is inside update_values and
\* holds the sender's lock, runs disarm-then-shutdown to completion: the
\* handler is never left waiting forever.
C19_ShutdownNeverBlocks == ~HandlerSelfBlocked

\* C20 - main() sends an arm command only when the current filtered
\* throttle is at or below 0.05; with Options pressed and the filtered
\* throttle above it no arm command is sent.
C20_ArmCommandGate ==
    [][(MainIteration /\ \E i \in DOMAIN drone'.cmds : drone'.cmds[i] = "arm")
         => handler.filtered["throttle"] * ARM_THR_DEN
              <= ARM_THR_NUM * HScale]_vars

(* ============ claims about the lock, the mapping and the link ========= *)

C22_LpfSteady ==
    (norm_out # <<>> /\ norm_in.start = norm_in.new) =>
        /\ norm_out.num = norm_in.new
        /\ norm_in.old = norm_in.new

\* the handler's filter has run twice at a steady non-zero input
C22_Witness ==
    /\ norm_out # <<>>
    /\ norm_in.fn = "handler_lpf"
    /\ norm_in.start = norm_in.new
    /\ norm_in.new # 0
    /\ norm_in.n >= 2
    /\ norm_out.num = norm_in.new

\* k is int(base + gain * v) for the float v / Scale: the integer next to
\* base + gain * v / Scale on the side of zero
IsIntOf(k, base, gain, v) ==
    IF (k - base) * Scale <= gain * v /\ k >= 0
      THEN gain * v < (k + 1 - base) * Scale
      ELSE /\ k <= 0
           /\ (k - 1 - base) * Scale < gain * v
           /\ gain * v <= (k - base) * Scale

\* C23 - update_values with armed = True stores, before the clamp,
\* int(1500 + roll*500), int(1500 + pitch*500), int(1500 + yaw*500),
\* int(1000 + throttle*1000) and 2000 in slots 0..4 and leaves slots 5..7
\* as they were; the clamp loop then brings every slot into [1000, 2000].
C23_ArmedChannelMapping ==
    /\ []((mainPc = "uv_clamp" /\ uvArmed) =>
            /\ IsIntOf(rc_channels[1], 1500, 500, uvVals["roll"])
            /\ IsIntOf(rc_channels[2], 1500, 500, uvVals["pitch"])
            /\ IsIntOf(rc_channels[3], 1500, 500, uvVals["yaw"])
            /\ IsIntOf(rc_channels[4], 1000, 1000, uvVals["throttle"])
            /\ rc_channels[5] = 2000)
    /\ [][(mainPc = "uv_map") =>
            \A i \in 6..8 : rc_channels'[i] = rc_channels[i]]_vars
    /\ [][(mainPc = "uv_clamp" /\ mainPc' # "uv_clamp") =>
            \A i \in 1..8 :
               rc_channels'[i] =
                  IF rc_channels[i] < 1000 THEN 1000
                  ELSE IF rc_channels[i] > 2000 THEN 2000
                  ELSE rc_channels[i]]_vars

\* an armed update with four different stick values has stored its slots
\* and stands before the clamp loop
C23_Witness ==
    /\ mainPc = "uv_clamp"
    /\ uvArmed
    /\ uvVals = [roll |-> -Scale, pitch |-> Scale \div 2, yaw |-> 0,
                 throttle |-> Scale \div 4]
    /\ rc_channels = <<1000, 1750, 1500, 1250, 2000, 1000, 1000, 1000>>

\* C24 - Between the calls of update_values and close, that is whenever the
\* lock is free, the arm-state channel agrees with the armed flag: AUX1
\* (slot 4) is 2000 if armed is true and 1000 otherwise.
C24_Aux1FollowsArmed ==
    data_lock = "none" =>
        rc_channels[5] = IF sender_armed THEN 2000 ELSE 1000

\* an armed update has returned, after an earlier call had disarmed
C24_Witness ==
    /\ data_lock = "none"
    /\ mainPc = "idle"
    /\ nCalls >= 2
    /\ sender_armed
    /\ rc_channels[5] = 2000

\* C25 - Every reconnect starts from scratch over the same ordered list:
\* whatever opens and write failures came before, a _start_serial that
\* finds no open handle tries the originally configured primary path and
\* every fixed fallback, so it opens a handle whenever one of them can be
\* opened.
C25_RetryOverOriginalList ==
    [][(/\ txPc = "open"
        /\ ~(ser # "None" /\ ser_open)
        /\ txPc' # "open"
        /\ \E q \in {DEFAULT_PORT, "/dev/ttyACM1", "/dev/ttyUSB0",
                     "/dev/ttyUSB1"} : q \in present)
          => ser_open']_vars

\* C26 - Once the transmitter thread runs, the serial handle is its own:
\* every step that opens, closes or reassigns the handle or puts bytes on
\* the wire is a step of the transmitter thread, never one of the thread
\* that calls update_values or close.
C26_HandleOwnedByTransmitter ==
    [][(ser' # ser \/ ser_open' # ser_open \/ nOpen' # nOpen \/ wire' # wire)
         => (txPc' # txPc /\ mainPc' = mainPc)]_vars

\* C27 - Once close() has returned, whatever the interleaving with the
\* transmitter thread and also when the join timed out, no further frame is
\* written, and the serial handle is not open and is not opened again.
C27_QuietAfterClose ==
    /\ [](mainPc = "closed" => ~(ser # "None" /\ ser_open))
    /\ [][mainPc = "closed" => (wire' = wire /\ nOpen' = nOpen)]_vars

(* ================= claims about the gate and the handler ============== *)

\* C28 - The gate never arms while the physical throttle is above the arm
\* threshold: in every step that arms, the normalized value of the throttle
\* sample received last (raw["throttle"], zero after a reset) is below
\* the threshold.
C28_ArmsOnlyAtLowStick ==
    [][(~armed /\ armed') =>
          raw["throttle"] * ARM_THR_DEN < ARM_THR_NUM * Scale]_vars

\* the channel value of the filtered value f of axis a, as _run maps it
ChannelOf(a, f) ==
    IF a = "throttle" THEN 1000 + ((f * 250) \div HScale)
                      ELSE 1500 + ((f * 500) \div HScale)

\* C29 - After every processed axis event each of the four rc_values is the
\* channel mapping of that axis's current filtered value, so every override
\* sent carries the current filtered state of all four axes, each value in
\* [1000, 2000].
C29_RcValuesCurrent ==
    /\ \A a \in Axes :
          handler.rc_values[a] = ChannelOf(a, handler.filtered[a])
    /\ drone.override # <<>> =>
          \A i \in 1..4 : drone.override[i] \in 1000..2000

\* C30 - Every press of the PS button, however short, leads to a disarm
\* command and to the end of the main loop: the press recorded by the event
\* thread is the only trace main() can act on, so it is not erased by a
\* later event of that button while the loop still runs without having
\* acted on it.
C30_KillPressNeverLost ==
    [][(handler.buttons["BTN_MODE"] = 1 /\ handler'.buttons["BTN_MODE"] # 1)
         => ~drone.looping]_vars

=============================================================================
